---- MODULE Spec2Model ----
(***************************************************************************)
(* A model of busserull/sudoku (src/src/main.rs): the candidate sets, the  *)
(* cells, the 9x9 grid with its propagation (deduce), the backtracking     *)
(* search (solve / find_solutions), the puzzle-text parser (Grid::new),    *)
(* the random source and the puzzle generator (Grid::generate).            *)
(*                                                                         *)
(* A GridCellOptions value ([bool; 9]) is modelled by the set of the       *)
(* indices 0..8 whose flag is true; digit d of the puzzle is index d - 1.  *)
(***************************************************************************)
EXTENDS Integers, Sequences, FiniteSets, TLC

\* ------------------------------------------------------------------------
\* Option<usize>::None
None == -1

\* ------------------------------------------------------------------------
\* GridCellOptions

all == 0..8

none == {}

single(value) == {value}

is_set(options, value) == IF value = None THEN FALSE ELSE value \in options

options_set(options, value) == IF value = None THEN options ELSE options \cup {value}

\* Iterator::next on a GridCellOptions: the position of the first true flag.
first_option(options) == CHOOSE o \in options : \A p \in options : o <= p

\* ------------------------------------------------------------------------
\* GridCell

GridCell_new(value) ==
    IF value # None
    THEN [given |-> TRUE, options |-> single(value)]
    ELSE [given |-> FALSE, options |-> all]

count(cell) == Cardinality(cell.options)

unique(cell) == count(cell) = 1

value(cell) == IF unique(cell) THEN first_option(cell.options) ELSE None

is_legal(cell, v) == v \in cell.options

set(cell, v) == [cell EXCEPT !.options = single(v)]

\* remove without the test for a unique cell
remove_from_any(cell, options) ==
    [cell |-> [cell EXCEPT !.options = cell.options \ options],
     removed |-> Cardinality(cell.options \cap options)]

\* remove that clears the flags and reports none cleared
remove_uncounted(cell, options) ==
    IF unique(cell)
    THEN [cell |-> cell, removed |-> 0]
    ELSE [cell |-> [cell EXCEPT !.options = cell.options \ options], removed |-> 0]

\* remove returns the cell after the removal and the number of flags cleared.
remove(cell, options) ==
    IF unique(cell)
    THEN [cell |-> cell, removed |-> 0]
    ELSE [cell |-> [cell EXCEPT !.options = cell.options \ options],
          removed |-> Cardinality(cell.options \cap options)]

\* ------------------------------------------------------------------------
\* GridDeduction and its BitAndAssign

GridDeduction == {"NoChange", "Consistent", "Conflict"}

\* bitand_assign without the arm (_, Conflict)
BitAnd_first_only(lhs, rhs) ==
    LET pair == <<lhs, rhs>>
    IN  CASE pair[1] = "Conflict" -> "Conflict"
          [] pair[1] = "Consistent" -> "Consistent"
          [] pair[2] = "Consistent" -> "Consistent"
          [] OTHER -> "NoChange"

\* bitand_assign: the match on the pair (self, rhs), arm by arm.
BitAnd(lhs, rhs) ==
    LET pair == <<lhs, rhs>>
    IN  CASE pair[1] = "Conflict" -> "Conflict"
          [] pair[2] = "Conflict" -> "Conflict"
          [] pair[1] = "Consistent" -> "Consistent"
          [] pair[2] = "Consistent" -> "Consistent"
          [] OTHER -> "NoChange"

is_consistent(d) == d = "Consistent"

no_conflict(d) == d # "Conflict"

\* ------------------------------------------------------------------------
\* Grid: propagation

\* The first loop of remove_options: the set of values held by unique cells,
\* or the early return of Conflict when a value is met twice.
RECURSIVE scan_set_options(_, _, _, _)
scan_set_options(grid, indices, k, set_options) ==
    IF k > Len(indices) THEN [conflict |-> FALSE, set_options |-> set_options]
    ELSE LET v == value(grid[indices[k]])
         IN  IF is_set(set_options, v)
             THEN [conflict |-> TRUE, set_options |-> set_options]
             ELSE scan_set_options(grid, indices, k + 1, options_set(set_options, v))

\* The second loop of remove_options: remove set_options from every cell of
\* the partition and sum the numbers of flags cleared.
RECURSIVE remove_each(_, _, _, _, _)
remove_each(grid, indices, k, set_options, options_removed) ==
    IF k > Len(indices) THEN [grid |-> grid, options_removed |-> options_removed]
    ELSE LET r == remove(grid[indices[k]], set_options)
         IN  remove_each([grid EXCEPT ![indices[k]] = r.cell], indices, k + 1,
                         set_options, options_removed + r.removed)

remove_options(grid, indices) ==
    LET scan == scan_set_options(grid, indices, 1, none)
        swept == remove_each(grid, indices, 1, scan.set_options, 0)
    IN  IF scan.conflict
        THEN [grid |-> grid, result |-> "Conflict"]
        ELSE [grid |-> swept.grid,
              result |-> IF swept.options_removed = 0 THEN "NoChange" ELSE "Consistent"]

deduce_box(grid, box_number) ==
    LET offset == (box_number \div 3) * 27 + (box_number % 3) * 3
    IN  remove_options(grid, <<0 + offset, 1 + offset, 2 + offset,
                               9 + offset, 10 + offset, 11 + offset,
                               18 + offset, 19 + offset, 20 + offset>>)

deduce_row(grid, row_number) ==
    LET offset == 9 * row_number
    IN  remove_options(grid, <<0 + offset, 1 + offset, 2 + offset,
                               3 + offset, 4 + offset, 5 + offset,
                               6 + offset, 7 + offset, 8 + offset>>)

deduce_column(grid, column_number) ==
    remove_options(grid, <<0 + column_number, 9 + column_number,
                           18 + column_number, 27 + column_number,
                           36 + column_number, 45 + column_number,
                           54 + column_number, 63 + column_number,
                           72 + column_number>>)

\* The for loop of deduce from `number` on: deduce_box, deduce_row and
\* deduce_column of each number, every result and-assigned to `result`.
RECURSIVE deduce_sweep(_, _, _)
deduce_sweep(grid, result, number) ==
    IF number > 8 THEN [grid |-> grid, result |-> result]
    ELSE LET b == deduce_box(grid, number)
             r == deduce_row(b.grid, number)
             c == deduce_column(r.grid, number)
             combined == BitAnd(BitAnd(BitAnd(result, b.result), r.result), c.result)
         IN  CASE combined \in GridDeduction ->
                      deduce_sweep(c.grid, combined, number + 1)

\* The while loop of deduce.
RECURSIVE deduce_loop(_, _)
deduce_loop(grid, result) ==
    IF is_consistent(result)
    THEN LET s == deduce_sweep(grid, "NoChange", 0)
         IN  deduce_loop(s.grid, s.result)
    ELSE [grid |-> grid, result |-> result]

deduce(grid) == deduce_loop(grid, "Consistent")

\* ------------------------------------------------------------------------
\* Grid: search

\* first_unsolved_cell: the first cell in index order that is not unique, with
\* a copy of its options; index None when every cell is unique.
first_unsolved_cell(grid) ==
    LET unsolved == {i \in DOMAIN grid : ~unique(grid[i])}
    IN  IF unsolved # {}
        THEN LET index == CHOOSE i \in unsolved : \A j \in unsolved : i <= j
             IN  [index |-> index, options |-> grid[index].options]
        ELSE [index |-> None, options |-> none]

\* The test at the head of find_solutions.
\* The cutoff test with > for >=
cutoff_passed(found, limit) == Len(found) > limit

\* The cutoff test that looks at the limit only
cutoff_is_zero(found, limit) == limit = 0

cutoff_reached(found, limit) == Len(found) >= limit

\* ------------------------------------------------------------------------
\* u64 arithmetic.  A u64 is the sequence of its eight bytes, the least
\* significant first, so that no intermediate value leaves TLC's integers.

u64(n) ==
    <<(n % 256), (n \div 256) % 256, (n \div 65536) % 256, (n \div 16777216) % 256,
      0, 0, 0, 0>>

byte_at(a, i) == IF i >= 1 /\ i <= 8 THEN a[i] ELSE 0

bit_at(v, i) == (v \div (2 ^ i)) % 2

xor_byte(v, w) ==
    LET x(i) == ((bit_at(v, i) + bit_at(w, i)) % 2) * (2 ^ i)
    IN  x(0) + x(1) + x(2) + x(3) + x(4) + x(5) + x(6) + x(7)

\* a ^ b
xor(a, b) == LET x(i) == xor_byte(a[i], b[i]) IN <<x(1), x(2), x(3), x(4), x(5), x(6), x(7), x(8)>>

\* a.wrapping_shl(n) and a.wrapping_shr(n), for 0 <= n < 64
wrapping_shl(a, n) ==
    LET q == n \div 8
        r == n % 8
        x(i) == ((byte_at(a, i - q) * (2 ^ r)) % 256)
                   + (byte_at(a, i - q - 1) \div (2 ^ (8 - r)))
    IN  <<x(1), x(2), x(3), x(4), x(5), x(6), x(7), x(8)>>

wrapping_shr(a, n) ==
    LET q == n \div 8
        r == n % 8
        x(i) == (byte_at(a, i + q) \div (2 ^ r))
                   + ((byte_at(a, i + q + 1) * (2 ^ (8 - r))) % 256)
    IN  <<x(1), x(2), x(3), x(4), x(5), x(6), x(7), x(8)>>

RECURSIVE add_from(_, _, _, _)
add_from(a, b, i, carry) ==
    IF i > 8 THEN <<>>
    ELSE LET sum == a[i] + b[i] + carry
         IN  <<sum % 256>> \o add_from(a, b, i + 1, sum \div 256)

\* a.wrapping_add(b)
wrapping_add(a, b) == add_from(a, b, 1, 0)

\* The sum of the byte products that fall on byte k of a product.
RECURSIVE column(_, _, _, _)
column(a, b, k, i) ==
    IF i > k THEN 0 ELSE (a[i] * b[k + 1 - i]) + column(a, b, k, i + 1)

RECURSIVE mul_from(_, _, _, _)
mul_from(a, b, k, carry) ==
    IF k > 8 THEN <<>>
    ELSE LET sum == column(a, b, k, 1) + carry
         IN  <<sum % 256>> \o mul_from(a, b, k + 1, sum \div 256)

\* a.wrapping_mul(b)
wrapping_mul(a, b) == mul_from(a, b, 1, 0)

\* a & 0xffff_ffff
low_half(a) == <<a[1], a[2], a[3], a[4], 0, 0, 0, 0>>

\* a % n for a small n, as an integer
RECURSIVE rem_from(_, _, _, _)
rem_from(a, i, n, r) ==
    IF i < 1 THEN r ELSE rem_from(a, i - 1, n, (r * 256 + a[i]) % n)

rem(a, n) == rem_from(a, 8, n, 0)

\* ------------------------------------------------------------------------
\* Random: the three words of the generator

\* 4101842887655102017
seed_mask == <<65, 22, 37, 179, 95, 172, 236, 56>>

\* 2862933555777941757
multiplier == <<253, 176, 176, 135, 230, 46, 187, 39>>

\* 7046029254386353087
increment == <<191, 131, 181, 128, 70, 134, 200, 97>>

\* 4294957665
base == <<97, 218, 255, 255, 0, 0, 0, 0>>

\* x ^= x.wrapping_shl(n) and x ^= x.wrapping_shr(n)
xor_shl(x, n) == xor(x, wrapping_shl(x, n))

xor_shr(x, n) == xor(x, wrapping_shr(x, n))

\* The three words after a draw.
next_0(word) == wrapping_add(wrapping_mul(word, multiplier), increment)

next_1(word) == xor_shr(xor_shl(xor_shr(word, 17), 31), 8)

next_2(word) == wrapping_add(wrapping_mul(base, low_half(word)), wrapping_shr(word, 32))

\* x.wrapping_add(self.1) ^ self.2, x scrambled from self.0
drawn(rand) ==
    [rand |-> rand,
     value |-> xor(wrapping_add(xor_shl(xor_shr(xor_shl(rand[1], 21), 35), 4), rand[2]),
                   rand[3])]

\* get: the generator after the draw and the value drawn.
get(rand) == drawn(<<next_0(rand[1]), next_1(rand[2]), next_2(rand[3])>>)

\* generator.1 = generator.0 and generator.2 = generator.1 between the draws of new
copy_0_to_1(rand) == <<rand[1], rand[1], rand[3]>>

copy_1_to_2(rand) == <<rand[1], rand[2], rand[2]>>

Random_new(seed_word) ==
    get(copy_1_to_2(get(copy_0_to_1(
        get(<<xor(seed_word, seed_mask), seed_mask, u64(1)>>).rand)).rand)).rand

\* range: min + get() % (max - min)
in_range(g, min, max) == [rand |-> g.rand, value |-> min + rem(g.value, max - min)]

range(rand, min, max) == in_range(get(rand), min, max)

\* list.swap(i, j)
swap(list, i, j) == [list EXCEPT ![i + 1] = list[j + 1], ![j + 1] = list[i + 1]]

\* shuffle: for i in 0..list.len() - 2, swap list[i] and list[range(i, len)].
RECURSIVE shuffle_from(_, _, _)
shuffle_swap(r, list, i) == shuffle_from(r.rand, swap(list, i, r.value), i + 1)

shuffle_from(rand, list, i) ==
    IF i >= Len(list) - 2 THEN [rand |-> rand, list |-> list]
    ELSE shuffle_swap(range(rand, i, Len(list)), list, i)

shuffle(rand, list) == shuffle_from(rand, list, 0)

\* ------------------------------------------------------------------------
\* The boards handed to deduce and solve: a solved grid with some groups of
\* cells blanked and possibly one given overwritten by another digit.

NumBlankGroups == 5
MaxCutoff == 2

SolvedDigits ==
    <<5, 3, 4, 6, 7, 8, 9, 1, 2,
      6, 7, 2, 1, 9, 5, 3, 4, 8,
      1, 9, 8, 3, 4, 2, 5, 6, 7,
      8, 5, 9, 7, 6, 1, 4, 2, 3,
      4, 2, 6, 8, 5, 3, 7, 9, 1,
      7, 1, 3, 9, 2, 4, 8, 5, 6,
      9, 6, 1, 5, 3, 7, 2, 8, 4,
      2, 8, 7, 4, 1, 9, 6, 3, 5,
      3, 4, 5, 2, 8, 6, 1, 7, 9>>

BlankGroups == <<{3, 4}, {30, 31}, {32}, {16, 17, 61, 62}, {77}, {0}, {40, 41}>>

Overrides == {<<>>, <<12, 1>>}

Board(groups, override) ==
    [i \in 0..80 |->
        IF \E g \in groups : i \in BlankGroups[g] THEN GridCell_new(None)
        ELSE IF override # <<>> /\ override[1] = i THEN GridCell_new(override[2])
        ELSE GridCell_new(SolvedDigits[i + 1] - 1)]

Inputs == {Board(groups, override) :
              groups \in SUBSET (1..NumBlankGroups), override \in Overrides}

BlankGrid == [i \in 0..80 |-> GridCell_new(None)]

\* ------------------------------------------------------------------------
\* State

VARIABLES
    pc,            \* the position of the program
    \* Grid::new
    text,          \* the characters of the grid file
    pos,           \* the position of the next character to read
    cells,         \* the cells filled so far
    grid_index,    \* the index of the next cell to fill
    \* deduce, solve and find_solutions
    input,         \* the grid deduce or solve was called on
    cutoff,        \* solutions_cutoff of the running solve
    self,          \* the grid find_solutions and deduce work on
    solutions,     \* the accumulator of find_solutions
    stack,         \* the open frames of find_solutions: backtrack, trial_index
                   \* and the candidates the for loop has not yet tried
    result,        \* the GridDeduction the last deduce returned
    arg,           \* the grid the last deduce was called on
    op,            \* the operation the last step performed
    ret,           \* where solve returns to
    once,          \* the grid and result of a first, direct call of deduce
    \* Grid::generate
    seed,          \* the seed generate was called with
    rand,          \* the random source
    digits,        \* the array of digits, as last shuffled
    cell_indices,  \* the visiting order of the cells
    at,            \* the position of the running loop in cell_indices
    grid,          \* the grid under construction
    backtrace,     \* the clone taken before a trial
    adopted,       \* whether the insertion loop left with `break 'all`
    probe          \* the cell reset in the grid handed to a later solve

parseVars == <<text, pos, cells, grid_index>>

solveVars == <<input, cutoff, self, solutions, stack, result, arg, op, ret, once>>

genVars == <<seed, rand, digits, cell_indices, at, grid, backtrace, adopted, probe>>

vars == <<pc, parseVars, solveVars, genVars>>

\* ------------------------------------------------------------------------
\* solve and find_solutions, one step per call, loop iteration and return

\* Where control goes when a call of find_solutions returns: back into the
\* for loop of the calling frame, or out of solve.
after_return(frames) == IF frames = <<>> THEN ret ELSE "loop"

\* find_solutions entered with the cutoff reached: return at once.
FindCutoff ==
    /\ pc = "call"
    /\ cutoff_reached(solutions, cutoff)
    /\ pc' = after_return(stack)
    /\ op' = "cutoff"
    /\ UNCHANGED <<input, cutoff, self, solutions, stack, result, arg, ret, once>>
    /\ UNCHANGED <<parseVars, genVars>>

\* find_solutions entered with an unsolved cell: clone the grid and start the
\* for loop over the cell's options.
FindBranch ==
    /\ pc = "call"
    /\ ~cutoff_reached(solutions, cutoff)
    /\ first_unsolved_cell(self).index # None
    /\ LET trial == first_unsolved_cell(self)
       IN  stack' = Append(stack, [backtrack |-> self,
                                   trial_index |-> trial.index,
                                   options |-> trial.options])
    /\ pc' = "loop"
    /\ op' = "branch"
    /\ UNCHANGED <<input, cutoff, self, solutions, result, arg, ret, once>>
    /\ UNCHANGED <<parseVars, genVars>>

\* find_solutions entered with every cell unique: push the grid.
FindPush ==
    /\ pc = "call"
    /\ ~cutoff_reached(solutions, cutoff)
    /\ first_unsolved_cell(self).index = None
    /\ solutions' = Append(solutions, self)
    /\ pc' = after_return(stack)
    /\ op' = "push"
    /\ UNCHANGED <<input, cutoff, self, stack, result, arg, ret, once>>
    /\ UNCHANGED <<parseVars, genVars>>

\* One iteration of the for loop: restore the clone, set the guess, deduce,
\* and recurse unless deduce reported a conflict.
Guess ==
    /\ pc = "loop"
    /\ stack[Len(stack)].options # none
    /\ LET top == stack[Len(stack)]
           guess == first_option(top.options)
           trial == [top.backtrack EXCEPT ![top.trial_index] = set(@, guess)]
           d == deduce(trial)
       IN  /\ stack' = [stack EXCEPT ![Len(stack)].options = top.options \ {guess}]
           /\ arg' = trial
           /\ self' = d.grid
           /\ result' = d.result
           /\ pc' = IF no_conflict(d.result) THEN "call" ELSE "loop"
    /\ op' = "guess"
    /\ UNCHANGED <<input, cutoff, solutions, ret, once>>
    /\ UNCHANGED <<parseVars, genVars>>

\* The for loop has run out of options: find_solutions returns.
LoopEnd ==
    /\ pc = "loop"
    /\ stack[Len(stack)].options = none
    /\ stack' = SubSeq(stack, 1, Len(stack) - 1)
    /\ pc' = after_return(stack')
    /\ op' = "unwind"
    /\ UNCHANGED <<input, cutoff, self, solutions, result, arg, ret, once>>
    /\ UNCHANGED <<parseVars, genVars>>

\* ------------------------------------------------------------------------
\* The calls a user of Grid makes

\* The entry of solve: an empty accumulator, and find_solutions called on the
\* copy of the grid that solve owns.
call_solve(board, limit, back) ==
    /\ input' = board
    /\ self' = board
    /\ cutoff' = limit
    /\ solutions' = <<>>
    /\ stack' = <<>>
    /\ ret' = back
    /\ pc' = "call"
    /\ op' = "solve"
    /\ UNCHANGED <<result, arg, once>>

\* grid.solve(k)
Solve ==
    /\ pc = "start"
    /\ \E k \in 0..MaxCutoff : call_solve(input, k, "done")
    /\ UNCHANGED <<parseVars, genVars>>

\* grid.deduce()
DeduceCall ==
    /\ pc = "start"
    /\ LET d == deduce(input)
       IN  /\ self' = d.grid
           /\ result' = d.result
           /\ once' = d
    /\ arg' = input
    /\ pc' = "deduced"
    /\ op' = "deduce"
    /\ UNCHANGED <<input, cutoff, solutions, stack, ret>>
    /\ UNCHANGED <<parseVars, genVars>>

\* grid.deduce() a second time, on the grid the first call left
DeduceAgain ==
    /\ pc = "deduced"
    /\ LET d == deduce(self)
       IN  /\ self' = d.grid
           /\ result' = d.result
    /\ arg' = self
    /\ pc' = "deduced_twice"
    /\ op' = "deduce"
    /\ UNCHANGED <<input, cutoff, solutions, stack, ret, once>>
    /\ UNCHANGED <<parseVars, genVars>>

\* ------------------------------------------------------------------------
\* Grid::generate, one step per phase and per loop iteration

NumSeeds == 2

SeedList == <<86272, 5845, 221580, 2868>>

Seeds == {SeedList[n] : n \in 1..NumSeeds}

diagonal_boxes ==
    <<<<0, 1, 2, 9, 10, 11, 18, 19, 20>>,
      <<30, 31, 32, 39, 40, 41, 48, 49, 50>>,
      <<60, 61, 62, 69, 70, 71, 78, 79, 80>>>>

\* for (&index, &digit) in indices.iter().zip(digits.iter()): set the digit.
RECURSIVE fill_from(_, _, _, _)
fill_from(board, indices, list, k) ==
    IF k > Len(indices) THEN board
    ELSE fill_from([board EXCEPT ![indices[k]] = set(@, list[k])], indices, list, k + 1)

\* digits.iter().find(|digit| cell.is_legal(digit)): None when there is none.
first_legal(list, cell) ==
    LET legal == {k \in 1..Len(list) : is_legal(cell, list[k])}
    IN  IF legal = {} THEN None
        ELSE list[CHOOSE k \in legal : \A l \in legal : k <= l]

\* The test of the minimization loop: the clone is put back.
\* The test of the minimization loop, inverted
must_restore_unique(found) == Len(found) = 1

must_restore(found) == Len(found) # 1

\* The entry of generate: the blank grid, Random::new(seed), the digits.
GenerateStart ==
    /\ pc = "generate"
    /\ rand' = Random_new(u64(seed))
    /\ digits' = <<0, 1, 2, 3, 4, 5, 6, 7, 8>>
    /\ grid' = BlankGrid
    /\ at' = 1
    /\ pc' = "fill"
    /\ UNCHANGED <<seed, cell_indices, backtrace, adopted, probe>>
    /\ UNCHANGED <<parseVars, solveVars>>

\* for indices in box_indices.iter(): shuffle the digits and fill the box.
FillBox ==
    /\ pc = "fill"
    /\ at <= Len(diagonal_boxes)
    /\ \E shuffled \in {shuffle(rand, digits)} :
           /\ rand' = shuffled.rand
           /\ digits' = shuffled.list
           /\ grid' = fill_from(grid, diagonal_boxes[at], shuffled.list, 1)
    /\ at' = at + 1
    /\ UNCHANGED <<pc, seed, cell_indices, backtrace, adopted, probe>>
    /\ UNCHANGED <<parseVars, solveVars>>

\* After the boxes: grid.deduce(), then the cells 0..80 in shuffled order.
OrderCells ==
    /\ pc = "fill"
    /\ at > Len(diagonal_boxes)
    /\ grid' = deduce(grid).grid
    /\ \E order \in {shuffle(rand, [k \in 1..81 |-> k - 1])} :
           /\ rand' = order.rand
           /\ cell_indices' = order.list
    /\ at' = 1
    /\ pc' = "insert"
    /\ UNCHANGED <<seed, digits, backtrace, adopted, probe>>
    /\ UNCHANGED <<parseVars, solveVars>>

\* The insertion loop meets a unique cell: continue.
InsertSkip ==
    /\ pc = "insert"
    /\ at <= Len(cell_indices)
    /\ unique(grid[cell_indices[at]])
    /\ at' = at + 1
    /\ UNCHANGED <<pc, seed, rand, digits, cell_indices, grid, backtrace, adopted, probe>>
    /\ UNCHANGED <<parseVars, solveVars>>

\* The insertion loop meets an unsolved cell: shuffle the digits, set the
\* first legal one and call solve(2); expect panics when no digit is legal.
InsertTry ==
    /\ pc = "insert"
    /\ at <= Len(cell_indices)
    /\ ~unique(grid[cell_indices[at]])
    /\ \E shuffled \in {shuffle(rand, digits)} :
           /\ rand' = shuffled.rand
           /\ digits' = shuffled.list
           /\ \E digit \in {first_legal(shuffled.list, grid[cell_indices[at]])} :
                  IF digit = None
                  THEN /\ pc' = "panicked"
                       /\ UNCHANGED <<grid, backtrace, solveVars>>
                  ELSE /\ backtrace' = grid
                       /\ grid' = [grid EXCEPT ![cell_indices[at]] = set(@, digit)]
                       /\ call_solve(grid', 2, "insert_solved")
    /\ UNCHANGED <<seed, cell_indices, at, adopted, probe>>
    /\ UNCHANGED parseVars

\* solve(2) found nothing: take the clone back, deduce, next cell.
InsertEmpty ==
    /\ pc = "insert_solved"
    /\ solutions = <<>>
    /\ grid' = deduce(backtrace).grid
    /\ at' = at + 1
    /\ pc' = "insert"
    /\ UNCHANGED <<seed, rand, digits, cell_indices, backtrace, adopted, probe>>
    /\ UNCHANGED <<parseVars, solveVars>>

\* solve(2) found exactly one board: it becomes the grid, break 'all.
InsertUnique ==
    /\ pc = "insert_solved"
    /\ Len(solutions) = 1
    /\ grid' = solutions[1]
    /\ adopted' = TRUE
    /\ pc' = "reshuffle"
    /\ UNCHANGED <<seed, rand, digits, cell_indices, at, backtrace, probe>>
    /\ UNCHANGED <<parseVars, solveVars>>

\* solve(2) found two boards: keep the digit, deduce, next cell.
InsertMany ==
    /\ pc = "insert_solved"
    /\ Len(solutions) > 1
    /\ grid' = deduce(grid).grid
    /\ at' = at + 1
    /\ pc' = "insert"
    /\ UNCHANGED <<seed, rand, digits, cell_indices, backtrace, adopted, probe>>
    /\ UNCHANGED <<parseVars, solveVars>>

\* The insertion loop has visited every cell.
InsertDone ==
    /\ pc = "insert"
    /\ at > Len(cell_indices)
    /\ pc' = "reshuffle"
    /\ UNCHANGED genVars
    /\ UNCHANGED <<parseVars, solveVars>>

\* rand.shuffle(&mut cell_indices) between the two loops.
Reshuffle ==
    /\ pc = "reshuffle"
    /\ \E order \in {shuffle(rand, cell_indices)} :
           /\ rand' = order.rand
           /\ cell_indices' = order.list
    /\ at' = 1
    /\ pc' = "minimize"
    /\ UNCHANGED <<seed, digits, grid, backtrace, adopted, probe>>
    /\ UNCHANGED <<parseVars, solveVars>>

\* The minimization loop: clone the grid, give the cell all options, solve(2).
MinimizeTry ==
    /\ pc = "minimize"
    /\ at <= Len(cell_indices)
    /\ backtrace' = grid
    /\ grid' = [grid EXCEPT ![cell_indices[at]].options = all]
    /\ call_solve(grid', 2, "minimize_solved")
    /\ UNCHANGED <<seed, rand, digits, cell_indices, at, adopted, probe>>
    /\ UNCHANGED parseVars

\* solve(2) did not find exactly one board: the clone is put back.
MinimizeRestore ==
    /\ pc = "minimize_solved"
    /\ must_restore(solutions)
    /\ grid' = backtrace
    /\ at' = at + 1
    /\ pc' = "minimize"
    /\ UNCHANGED <<seed, rand, digits, cell_indices, backtrace, adopted, probe>>
    /\ UNCHANGED <<parseVars, solveVars>>

\* solve(2) found exactly one board: the cell stays blank.
MinimizeKeep ==
    /\ pc = "minimize_solved"
    /\ ~must_restore(solutions)
    /\ at' = at + 1
    /\ pc' = "minimize"
    /\ UNCHANGED <<seed, rand, digits, cell_indices, grid, backtrace, adopted, probe>>
    /\ UNCHANGED <<parseVars, solveVars>>

\* The last loop of generate: every unique cell becomes a given; return.
GenerateReturn ==
    /\ pc = "minimize"
    /\ at > Len(cell_indices)
    /\ grid' = [i \in DOMAIN grid |->
                   IF unique(grid[i]) THEN [grid[i] EXCEPT !.given = TRUE]
                   ELSE grid[i]]
    /\ pc' = "generated"
    /\ UNCHANGED <<seed, rand, digits, cell_indices, at, backtrace, adopted, probe>>
    /\ UNCHANGED <<parseVars, solveVars>>

\* solve(2) on the generated grid.
Verify ==
    /\ pc = "generated"
    /\ call_solve(grid, 2, "verified")
    /\ UNCHANGED <<parseVars, genVars>>

\* solve(2) on the generated grid with one unique cell given all options.
Probe ==
    /\ pc = "generated"
    /\ \E cell \in DOMAIN grid :
          /\ unique(grid[cell])
          /\ probe' = cell
          /\ call_solve([grid EXCEPT ![cell].options = all], 2, "probed")
    /\ UNCHANGED <<seed, rand, digits, cell_indices, at, grid, backtrace, adopted>>
    /\ UNCHANGED parseVars

\* ------------------------------------------------------------------------
\* Grid::new, one step per character of the file

\* ch as usize, for the characters of the texts below
code_point ==
    [ch \in {" ", "0", "1", "2", "3", "4", "5", "6", "7", "8", "9", "x"} |->
        CASE ch = " " -> 32
          [] ch = "0" -> 48
          [] ch = "1" -> 49
          [] ch = "2" -> 50
          [] ch = "3" -> 51
          [] ch = "4" -> 52
          [] ch = "5" -> 53
          [] ch = "6" -> 54
          [] ch = "7" -> 55
          [] ch = "8" -> 56
          [] ch = "9" -> 57
          [] ch = "x" -> 120]

\* The pattern '1'..='9'
is_digit_1_to_9(ch) == code_point[ch] >= code_point["1"] /\ code_point[ch] <= code_point["9"]

\* The digit taken as the index it stands for
index_of(ch) == code_point[ch] - code_point["1"]

\* let digit = ch as usize - '0' as usize
digit_of(ch) == code_point[ch] - code_point["0"]

MaxEditAt == 3

EditChars == {"0", "x", "4", " "}

BaseText ==
    <<"5", "3", "x", "x", "7", "x", "x", "x", "x",
      "6", "x", "x", "1", "9", "5", "x", "x", "x",
      "x", "9", "8", "x", "x", "x", "x", "6", "x",
      "8", "x", "x", "x", "6", "x", "x", "x", "3",
      "4", "x", "x", "8", "x", "3", "x", "x", "1",
      "7", "x", "x", "x", "2", "x", "x", "x", "6",
      "x", "6", "x", "x", "x", "x", "2", "8", "x",
      "x", "x", "x", "4", "1", "9", "x", "x", "5",
      "x", "x", "x", "x", "8", "x", "x", "7", "9">>

Replace(chars, p, ch) == [chars EXCEPT ![p] = ch]

Insert(chars, p, ch) == SubSeq(chars, 1, p - 1) \o <<ch>> \o SubSeq(chars, p, Len(chars))

Texts ==
    {BaseText}
        \cup {Replace(BaseText, p, ch) : p \in 1..MaxEditAt, ch \in EditChars}
        \cup {Insert(BaseText, p, ch) : p \in 1..MaxEditAt, ch \in EditChars}

\* The arm 'x' => grid_index += 1
ParseBlank ==
    /\ pc = "parse"
    /\ pos <= Len(text)
    /\ text[pos] = "x"
    /\ grid_index' = grid_index + 1
    /\ pos' = pos + 1
    /\ UNCHANGED <<pc, text, cells>>
    /\ UNCHANGED <<solveVars, genVars>>

\* The arm '1'..='9': the cell at grid_index becomes a given; indexing past
\* the array panics.
ParseDigit ==
    /\ pc = "parse"
    /\ pos <= Len(text)
    /\ text[pos] # "x"
    /\ is_digit_1_to_9(text[pos])
    /\ IF grid_index \in DOMAIN cells
       THEN /\ cells' = [cells EXCEPT ![grid_index] = GridCell_new(digit_of(text[pos]) - 1)]
            /\ grid_index' = grid_index + 1
            /\ pos' = pos + 1
            /\ pc' = pc
       ELSE /\ pc' = "panicked"
            /\ UNCHANGED <<cells, grid_index, pos>>
    /\ UNCHANGED text
    /\ UNCHANGED <<solveVars, genVars>>

\* The arm _ => ()
ParseOther ==
    /\ pc = "parse"
    /\ pos <= Len(text)
    /\ text[pos] # "x"
    /\ ~is_digit_1_to_9(text[pos])
    /\ pos' = pos + 1
    /\ UNCHANGED <<pc, text, cells, grid_index>>
    /\ UNCHANGED <<solveVars, genVars>>

\* The end of the characters: Self(cells)
ParseReturn ==
    /\ pc = "parse"
    /\ pos > Len(text)
    /\ pc' = "parsed"
    /\ UNCHANGED parseVars
    /\ UNCHANGED <<solveVars, genVars>>

\* ------------------------------------------------------------------------
\* The values of the variables a specification does not use

IdleParse ==
    /\ text = <<>>
    /\ pos = 1
    /\ cells = BlankGrid
    /\ grid_index = 0

IdleSolve ==
    /\ cutoff = 0
    /\ solutions = <<>>
    /\ stack = <<>>
    /\ result = "NoChange"
    /\ op = "init"
    /\ ret = "done"

IdleGen ==
    /\ seed = 0
    /\ rand = <<u64(0), u64(0), u64(0)>>
    /\ digits = <<0, 1, 2, 3, 4, 5, 6, 7, 8>>
    /\ cell_indices = <<>>
    /\ at = 1
    /\ grid = BlankGrid
    /\ backtrace = BlankGrid
    /\ adopted = FALSE
    /\ probe = None

\* ------------------------------------------------------------------------
\* deduce and solve called on the boards of Inputs

Init ==
    /\ pc = "start"
    /\ input \in Inputs
    /\ self = input
    /\ arg = input
    /\ once = [grid |-> input, result |-> "NoChange"]
    /\ IdleSolve
    /\ IdleParse
    /\ IdleGen

Next ==
    \/ Solve
    \/ DeduceCall
    \/ DeduceAgain
    \/ FindCutoff
    \/ FindBranch
    \/ FindPush
    \/ Guess
    \/ LoopEnd

Spec == Init /\ [][Next]_vars

\* ------------------------------------------------------------------------
\* generate called on the seeds of Seeds, and solve on what it returns

InitGen ==
    /\ pc = "generate"
    /\ seed \in Seeds
    /\ rand = <<u64(0), u64(0), u64(0)>>
    /\ digits = <<0, 1, 2, 3, 4, 5, 6, 7, 8>>
    /\ cell_indices = <<>>
    /\ at = 1
    /\ grid = BlankGrid
    /\ backtrace = BlankGrid
    /\ adopted = FALSE
    /\ probe = None
    /\ input = BlankGrid
    /\ self = BlankGrid
    /\ arg = BlankGrid
    /\ once = [grid |-> BlankGrid, result |-> "NoChange"]
    /\ IdleSolve
    /\ IdleParse

NextGen ==
    \/ GenerateStart
    \/ FillBox
    \/ OrderCells
    \/ InsertSkip
    \/ InsertTry
    \/ InsertEmpty
    \/ InsertUnique
    \/ InsertMany
    \/ InsertDone
    \/ Reshuffle
    \/ MinimizeTry
    \/ MinimizeRestore
    \/ MinimizeKeep
    \/ GenerateReturn
    \/ Verify
    \/ Probe
    \/ FindCutoff
    \/ FindBranch
    \/ FindPush
    \/ Guess
    \/ LoopEnd

SpecGen == InitGen /\ [][NextGen]_vars

\* ------------------------------------------------------------------------
\* Grid::new called on the texts of Texts

InitParse ==
    /\ pc = "parse"
    /\ text \in Texts
    /\ pos = 1
    /\ cells = BlankGrid
    /\ grid_index = 0
    /\ input = BlankGrid
    /\ self = BlankGrid
    /\ arg = BlankGrid
    /\ once = [grid |-> BlankGrid, result |-> "NoChange"]
    /\ IdleSolve
    /\ IdleGen

NextParse ==
    \/ ParseBlank
    \/ ParseDigit
    \/ ParseOther
    \/ ParseReturn

SpecParse == InitParse /\ [][NextParse]_vars

\* ------------------------------------------------------------------------
\* What a solved board is, and how many a board has, stated without the solver

row_of(i) == i \div 9

col_of(i) == i % 9

box_of(i) == (i \div 27) * 3 + ((i % 9) \div 3)

Peers ==
    [i \in 0..80 |->
        {j \in 0..80 : /\ j # i
                       /\ \/ row_of(j) = row_of(i)
                          \/ col_of(j) = col_of(i)
                          \/ box_of(j) = box_of(i)}]

\* Two different cells of one row, column or box are unique on the same digit.
HasDuplicate(board) ==
    \E i \in 0..80 : \E j \in Peers[i] :
        /\ unique(board[i])
        /\ unique(board[j])
        /\ value(board[i]) = value(board[j])

\* Every cell is unique and every row, column and box holds every digit once.
ValidSolution(board) ==
    /\ \A i \in 0..80 : unique(board[i]) /\ value(board[i]) \in 0..8
    /\ ~HasDuplicate(board)

\* The number of ways to give every cell that is not unique one of its options
\* such that no cell meets a peer on the same digit: the cells are filled in
\* index order, nothing is propagated.
RECURSIVE CountFrom(_)
CountFrom(board) ==
    IF \A i \in 0..80 : unique(board[i]) THEN 1
    ELSE LET i == CHOOSE c \in 0..80 :
                      /\ ~unique(board[c])
                      /\ \A d \in 0..80 : ~unique(board[d]) => c <= d
             fits(v) ==
                 /\ v \in board[i].options
                 /\ \A j \in Peers[i] : ~(unique(board[j]) /\ value(board[j]) = v)
             try(v) ==
                 IF fits(v) THEN CountFrom([board EXCEPT ![i].options = {v}]) ELSE 0
         IN  try(0) + try(1) + try(2) + try(3) + try(4) + try(5) + try(6) + try(7) + try(8)

CountCompletions(board) == IF HasDuplicate(board) THEN 0 ELSE CountFrom(board)

Min(a, b) == IF a <= b THEN a ELSE b

\* ------------------------------------------------------------------------
\* C1: every board solve returns is fully solved, with every digit once in every
\* row, column and box, whatever the input. The code pushes an input whose cells
\* are all unique without looking at its rows, columns and boxes.
C1_ReturnedBoardsAreValid ==
    \A k \in 1..Len(solutions) : ValidSolution(solutions[k])

\* C3: solve(k) returns min(k, N) pairwise distinct boards, N the number of
\* valid completions of the input. It fails on the boards of C1.
C3_CountsCompletions ==
    pc = "done" =>
        /\ Len(solutions) = Min(cutoff, CountCompletions(input))
        /\ \A k, l \in 1..Len(solutions) : k # l => solutions[k] # solutions[l]

\* C4: the accumulator never holds more boards than the cutoff, at any point of
\* the search and for every cutoff from 0 on.
C4_CutoffRespected == Len(solutions) <= cutoff

\* The cutoff is reached while frames of find_solutions are still open.
C4_Witness == cutoff > 0 /\ Len(solutions) = cutoff /\ stack # <<>>

\* C5: a cell that is unique when deduce or solve is called is the same cell,
\* options and given flag, after deduce returns and in every board solve
\* returns; and the cell a frame guesses on is never unique.
C5_UniqueCellsKept ==
    /\ op \in {"deduce", "guess"} =>
           \A i \in 0..80 : unique(arg[i]) => self[i] = arg[i]
    /\ \A k \in 1..Len(solutions) :
           \A i \in 0..80 : unique(input[i]) => solutions[k][i] = input[i]
    /\ \A f \in 1..Len(stack) : ~unique(stack[f].backtrack[stack[f].trial_index])

\* deduce has removed options next to unique cells, after a guess, and a board
\* has been returned.
C5_Witness ==
    /\ op = "guess"
    /\ self # arg
    /\ \E i \in 0..80 : unique(arg[i])
    /\ Len(solutions) > 0

\* C6, as stated: a second deduce leaves the board the first one left, whatever
\* the first one reported.
C6_SecondCallChangesNothing == pc = "deduced_twice" => self = once.grid

\* C6, amended: when the first deduce reports NoChange, a second deduce leaves
\* the board as it is and reports NoChange too.
C6_FixedPointAfterNoChange ==
    pc = "deduced_twice" /\ once.result = "NoChange" =>
        self = once.grid /\ result = "NoChange"

\* The first deduce removed options and reported NoChange, and a second ran.
C6_Witness ==
    pc = "deduced_twice" /\ once.result = "NoChange" /\ once.grid # input

\* C7: deduce called on a board with two unique cells on one digit in a row,
\* column or box reports Conflict; it reports NoChange only on a board without
\* such a pair; it never reports Consistent.
C7_ConflictReported ==
    /\ op \in {"deduce", "guess"} /\ HasDuplicate(arg) => result = "Conflict"
    /\ op \in {"deduce", "guess"} /\ result = "NoChange" => ~HasDuplicate(self)
    /\ result # "Consistent"

\* deduce was called on a board with such a pair.
C7_Witness == op = "deduce" /\ HasDuplicate(arg) /\ result = "Conflict"

\* C9, as stated: once the accumulator has reached the cutoff, no frame sets
\* another guess and runs deduce on it.
C9_NoGuessAfterCutoff == op = "guess" => Len(solutions) < cutoff

\* C9, amended: once the accumulator has reached the cutoff, no board is added
\* and no frame is opened until solve returns; the open frames still set and
\* deduce each of their remaining options.
C9_NothingFoundAfterCutoff ==
    [][(pc \in {"call", "loop"} /\ Len(solutions) >= cutoff)
          => (solutions' = solutions /\ Len(stack') <= Len(stack))]_vars

\* A frame has set a guess and run deduce with the cutoff already reached.
C9_Witness == op = "guess" /\ cutoff > 0 /\ Len(solutions) >= cutoff

\* ------------------------------------------------------------------------
\* C2: solve(2) on the board generate returns finds exactly one board, and that
\* board is a valid solution, for every seed. The insertion loop can end without
\* a trial that had exactly one solution.
C2_UniqueSolution ==
    pc = "verified" => Len(solutions) = 1 /\ ValidSolution(solutions[1])

\* C10: in the board generate returns, resetting any unique cell to all options
\* gives a board on which solve(2) does not find exactly one board; and a board
\* with exactly one solution before the minimization has exactly one after it.
C10_LocallyMinimal ==
    /\ pc = "probed" => Len(solutions) # 1
    /\ pc = "verified" /\ adopted => Len(solutions) = 1

\* A clue of a board with exactly one solution was reset, and solve(2) found two.
C10_Witness ==
    /\ pc = "probed"
    /\ adopted
    /\ unique(grid[probe])
    /\ \E i \in 0..80 : ~unique(grid[i])
    /\ Len(solutions) = 2

\* ------------------------------------------------------------------------
\* The characters that fill a cell, and the cell each stands for

is_value(ch) == ch = "x" \/ is_digit_1_to_9(ch)

is_value_or_zero(ch) == is_value(ch) \/ ch = "0"

cell_for(ch) ==
    IF is_digit_1_to_9(ch)
    THEN [given |-> TRUE, options |-> {code_point[ch] - code_point["1"]}]
    ELSE [given |-> FALSE, options |-> 0..8]

\* C8, as stated: digits and the placeholders 'x' and '0' fill the cells in
\* order; a text with 81 of them gives the board of those 81.
C8_ZeroIsPlaceholder ==
    pc = "parsed" /\ Len(SelectSeq(text, is_value_or_zero)) = 81 =>
        \A i \in 0..80 : cells[i] = cell_for(SelectSeq(text, is_value_or_zero)[i + 1])

\* C8, amended: the digits '1'-'9' and the placeholder 'x' fill the cells in
\* order, every other character, '0' too, is skipped without advancing; the
\* cells the text does not reach stay blank.
C8_OnlyXIsPlaceholder ==
    /\ pc \in {"parse", "parsed"} =>
           /\ grid_index = Len(SelectSeq(SubSeq(text, 1, pos - 1), is_value))
           /\ \A i \in 0..80 :
                  cells[i] = IF i < grid_index
                             THEN cell_for(SelectSeq(text, is_value)[i + 1])
                             ELSE [given |-> FALSE, options |-> 0..8]
    /\ pc = "parsed" => pos = Len(text) + 1

\* A text with a '0' and 81 digits and 'x' has been read to its end.
C8_Witness ==
    /\ pc = "parsed"
    /\ \E p \in 1..Len(text) : text[p] = "0"
    /\ Len(SelectSeq(text, is_value)) = 81
    /\ \E i \in 0..80 : cells[i].given

====
